---- MODULE Spec2Model ----
(***************************************************************************)
(* A model of the scrapper package:                                        *)
(*   fetcher.py    DuckDuckGoScraper.fetch_multiple / fetch_html,          *)
(*                 BaseScraper.is_valid_phone / detect_signals /           *)
(*                 detect_framework                                        *)
(*   cleaner.py    BaseCleaner.decode_cloudflare_email and the             *)
(*                 deduplication stage of HtmlCleaner.clean_html           *)
(*   text_utils.py find_string_in_html                                     *)
(* Text is a sequence of one-character strings.  Each component has its    *)
(* own variables and its own specification; a specification leaves the     *)
(* variables of the other components at their idle values.                 *)
(***************************************************************************)
EXTENDS Integers, Sequences, FiniteSets, TLC

VARIABLES
    \* ---- fetch_multiple, one task per entry of urls (Spec, LiveSpec)
    urls,         \* the urls argument: a sequence of URL names
    max_workers,  \* the max_workers argument: {} is None, {n} is the integer n
    pool_max,     \* executor._max_workers
    pc,           \* where the caller of fetch_multiple is
    submitted,    \* how many entries of urls have been submitted
    nthreads,     \* len(executor._threads)
    idle_sem,     \* executor._idle_semaphore
    releasing,    \* workers between work_item.run() and _idle_semaphore.release()
    phase,        \* per task: unsubmitted, queued, sleep, get, analyze, done
    data,         \* per task: the future's result: unset, None, record
    gets,         \* per task: how many session.get calls were issued
    collected,    \* the futures as_completed has yielded
    results,      \* the results list: records [url, task]
    \* ---- the same run with the tasks counted per phase (PoolSpec)
    n_urls,       \* len(urls)
    p_max_workers,\* the max_workers argument: {} is None, {n} is the integer n
    p_pool_max,   \* executor._max_workers
    p_pc,         \* where the caller of fetch_multiple is
    n_submitted,  \* entries of urls submitted so far
    p_nthreads,   \* len(executor._threads)
    p_idle_sem,   \* executor._idle_semaphore
    p_releasing,  \* workers between work_item.run() and _idle_semaphore.release()
    n_queued,     \* work items waiting in executor._work_queue
    n_sleep,      \* tasks in time.sleep of fetch_html
    n_get,        \* tasks in session.get
    n_analyze,    \* tasks decoding and analysing
    n_done,       \* futures finished and not yet yielded by as_completed
    n_collected,  \* futures yielded by as_completed
    \* ---- decode_cloudflare_email (DecoderSpec)
    cfemail,      \* the argument: a sequence of characters
    d_src,        \* how the argument was made: raw, or encoded from d_email, d_key
    d_email,      \* the plaintext (character codes) an encoded argument hides
    d_key,        \* the key byte of an encoded argument
    decoded,      \* the returned string, as character codes
    d_raised,     \* whether an exception left the function
    d_pc,         \* ready, returned
    \* ---- is_valid_phone and detect_signals (PhoneSpec)
    ph_op,        \* which of the two is called
    number,       \* the argument of is_valid_phone
    valid,        \* what is_valid_phone returned
    sig_html,     \* the argument of detect_signals
    phone_candidates, \* the matches of PHONE_REGEX, in order
    phones_found, \* the set behind "phones_found"
    has_phone,    \* "has_phone"
    ph_pc,        \* ready, returned
    \* ---- the deduplication stage of clean_html (DedupSpec)
    lines_in,     \* texto.split("\n"): a sequence of lines
    dd_next,      \* the index of the line the loop takes next
    seen,         \* the set seen
    dedup_lines,  \* the list dedup_lines
    dd_pc,        \* loop, returned
    \* ---- find_string_in_html (LocatorSpec)
    target,       \* the target argument
    loc_html,     \* the html argument
    context_chars,\* the context_chars argument
    loc_hits,     \* the returned list of hits
    loc_pc,       \* ready, returned
    \* ---- detect_framework (FrameworkSpec)
    fw_html,      \* the html argument, as the sequence of its tags and text runs
    fw_info,      \* the returned dictionary
    fw_pc         \* ready, returned

fetchVars == <<urls, max_workers, pool_max, pc, submitted, nthreads, idle_sem,
               releasing, phase, data, gets, collected, results>>

poolVars == <<n_urls, p_max_workers, p_pool_max, p_pc, n_submitted, p_nthreads,
              p_idle_sem, p_releasing, n_queued, n_sleep, n_get, n_analyze,
              n_done, n_collected>>

decVars == <<cfemail, d_src, d_email, d_key, decoded, d_raised, d_pc>>

phoneVars == <<ph_op, number, valid, sig_html, phone_candidates, phones_found,
               has_phone, ph_pc>>

dedupVars == <<lines_in, dd_next, seen, dedup_lines, dd_pc>>

locVars == <<target, loc_html, context_chars, loc_hits, loc_pc>>

fwVars == <<fw_html, fw_info, fw_pc>>

vars == <<fetchVars, poolVars, decVars, phoneVars, dedupVars, locVars, fwVars>>

\* what the actions of one component leave alone
notFetch == <<poolVars, decVars, phoneVars, dedupVars, locVars, fwVars>>
notPool == <<fetchVars, decVars, phoneVars, dedupVars, locVars, fwVars>>
notDec == <<fetchVars, poolVars, phoneVars, dedupVars, locVars, fwVars>>
notPhone == <<fetchVars, poolVars, decVars, dedupVars, locVars, fwVars>>
notDedup == <<fetchVars, poolVars, decVars, phoneVars, locVars, fwVars>>
notLoc == <<fetchVars, poolVars, decVars, phoneVars, dedupVars, fwVars>>
notFw == <<fetchVars, poolVars, decVars, phoneVars, dedupVars, locVars>>

----------------------------------------------------------------------------
(* Bounds of the model *)
MaxUrls == 3
MaxWorkers == 2
MaxPoolUrls == 11
MaxPoolWorkers == 3
MaxPayload == 4
MaxEmail == 2
MaxRun == 11
MaxLines == 3
MaxHtml == 4
MaxMarkers == 2
MaxTags == 6

(* Generic helpers *)
Min(a, b) == IF a <= b THEN a ELSE b
Max(a, b) == IF a >= b THEN a ELSE b
Range(s) == {s[i] : i \in 1..Len(s)}
SeqsUpTo(S, n) == UNION {[1..k -> S] : k \in 0..n}

----------------------------------------------------------------------------
(* fetcher.py: DuckDuckGoScraper.fetch_multiple and fetch_html             *)

URLS == {"u1", "u2"}
DEFAULT_WORKERS == 10
FailureKinds == {"network error", "timeout", "bad status"}

Tasks == 1..Len(urls)
InFlight == {i \in Tasks : phase[i] \in {"sleep", "get", "analyze"}}
Failed == {i \in Tasks : data[i] = "None"}
Succeeded == {i \in Tasks : data[i] = "record"}

\* a variant of DefaultWorkers without the cap of ten
DefaultWorkersUncapped(mw, n) == IF mw = {} THEN {n} ELSE mw

\* max_workers as line 176-177 leaves it
DefaultWorkers(mw, n) == IF mw = {} THEN {Min(DEFAULT_WORKERS, n)} ELSE mw

FetchInit ==
    /\ urls \in SeqsUpTo(URLS, MaxUrls)
    /\ max_workers \in {{}} \cup {{n} : n \in 1..MaxWorkers}
    /\ pool_max = 0
    /\ pc = "call"
    /\ submitted = 0
    /\ nthreads = 0
    /\ idle_sem = 0
    /\ releasing = 0
    /\ phase = [i \in 1..Len(urls) |-> "unsubmitted"]
    /\ data = [i \in 1..Len(urls) |-> "unset"]
    /\ gets = [i \in 1..Len(urls) |-> 0]
    /\ collected = {}
    /\ results = <<>>

\* lines 174-179: the empty list returns at once; otherwise the pool is made
Call ==
    /\ pc = "call"
    /\ IF urls = <<>>
       THEN /\ pc' = "done"
            /\ UNCHANGED pool_max
       ELSE /\ pool_max' = CHOOSE n \in DefaultWorkers(max_workers, Len(urls)) : TRUE
            /\ pc' = "submit"
    /\ UNCHANGED <<urls, max_workers, submitted, nthreads, idle_sem, releasing,
                   phase, data, gets, collected, results>>
    /\ UNCHANGED notFetch

\* ThreadPoolExecutor._adjust_thread_count: a thread is spawned when no idle
\* worker is signalled and the pool is not full
SpawnAllowed == nthreads < pool_max

\* line 180: executor.submit for the next entry of urls
Submit ==
    /\ pc = "submit"
    /\ submitted < Len(urls)
    /\ submitted' = submitted + 1
    /\ phase' = [phase EXCEPT ![submitted + 1] = "queued"]
    /\ IF idle_sem > 0
       THEN /\ idle_sem' = idle_sem - 1
            /\ UNCHANGED nthreads
       ELSE /\ nthreads' = IF SpawnAllowed THEN nthreads + 1 ELSE nthreads
            /\ UNCHANGED idle_sem
    /\ pc' = IF submitted + 1 = Len(urls) THEN "collect" ELSE "submit"
    /\ UNCHANGED <<urls, max_workers, pool_max, releasing, data, gets,
                   collected, results>>
    /\ UNCHANGED notFetch

\* a worker thread is free: it is neither running a task nor about to release
WorkerFree == Cardinality(InFlight) + releasing < nthreads

\* a free worker takes the oldest queued work item and enters fetch_html:
\* line 163, time.sleep(random.uniform(1, 3)) begins
Start(i) ==
    /\ phase[i] = "queued"
    /\ \A j \in Tasks : phase[j] = "queued" => i <= j
    /\ WorkerFree
    /\ phase' = [phase EXCEPT ![i] = "sleep"]
    /\ UNCHANGED <<urls, max_workers, pool_max, pc, submitted, nthreads,
                   idle_sem, releasing, data, gets, collected, results>>
    /\ UNCHANGED notFetch

\* line 164: the sleep is over and session.get(url, timeout=12) is issued
Get(i) ==
    /\ phase[i] = "sleep"
    /\ phase' = [phase EXCEPT ![i] = "get"]
    /\ gets' = [gets EXCEPT ![i] = @ + 1]
    /\ UNCHANGED <<urls, max_workers, pool_max, pc, submitted, nthreads,
                   idle_sem, releasing, data, collected, results>>
    /\ UNCHANGED notFetch

\* a variant of Respond that tries a failed GET a second time
RespondRetryOnce(i) ==
    /\ phase[i] = "get"
    /\ \/ /\ phase' = [phase EXCEPT ![i] = "analyze"]
          /\ UNCHANGED <<data, releasing>>
       \/ /\ gets[i] < 2
          /\ phase' = [phase EXCEPT ![i] = "sleep"]
          /\ UNCHANGED <<data, releasing>>
       \/ /\ gets[i] >= 2
          /\ phase' = [phase EXCEPT ![i] = "done"]
          /\ data' = [data EXCEPT ![i] = "None"]
          /\ releasing' = releasing + 1
    /\ UNCHANGED <<urls, max_workers, pool_max, pc, submitted, nthreads,
                   idle_sem, gets, collected, results>>
    /\ UNCHANGED notFetch

\* lines 164-165 and 170-171: the GET answers; a failure (exception of get or
\* of raise_for_status) is caught and fetch_html returns None
Respond(i) ==
    /\ phase[i] = "get"
    /\ \/ /\ phase' = [phase EXCEPT ![i] = "analyze"]
          /\ UNCHANGED <<data, releasing>>
       \/ /\ \E kind \in FailureKinds : TRUE
          /\ phase' = [phase EXCEPT ![i] = "done"]
          /\ data' = [data EXCEPT ![i] = "None"]
          /\ releasing' = releasing + 1
    /\ UNCHANGED <<urls, max_workers, pool_max, pc, submitted, nthreads,
                   idle_sem, gets, collected, results>>
    /\ UNCHANGED notFetch

\* lines 166-171: decode and analysis; an exception there is caught too
Analyze(i) ==
    /\ phase[i] = "analyze"
    /\ phase' = [phase EXCEPT ![i] = "done"]
    /\ \E ok \in BOOLEAN : data' = [data EXCEPT ![i] = IF ok THEN "record" ELSE "None"]
    /\ releasing' = releasing + 1
    /\ UNCHANGED <<urls, max_workers, pool_max, pc, submitted, nthreads,
                   idle_sem, gets, collected, results>>
    /\ UNCHANGED notFetch

\* ThreadPoolExecutor._worker after work_item.run(): _idle_semaphore.release()
Release ==
    /\ releasing > 0
    /\ releasing' = releasing - 1
    /\ idle_sem' = idle_sem + 1
    /\ UNCHANGED <<urls, max_workers, pool_max, pc, submitted, nthreads,
                   phase, data, gets, collected, results>>
    /\ UNCHANGED notFetch

\* a variant of Collect that appends whatever the future holds
CollectUnchecked(i) ==
    /\ pc = "collect"
    /\ phase[i] = "done"
    /\ i \notin collected
    /\ collected' = collected \cup {i}
    /\ results' = Append(results, [url |-> urls[i], task |-> i])
    /\ UNCHANGED <<urls, max_workers, pool_max, pc, submitted, nthreads,
                   idle_sem, releasing, phase, data, gets>>
    /\ UNCHANGED notFetch

\* a variant of Collect that is only ever handed the futures that succeeded
CollectOnlySucceeded(i) ==
    /\ pc = "collect"
    /\ phase[i] = "done"
    /\ data[i] = "record"
    /\ i \notin collected
    /\ collected' = collected \cup {i}
    /\ results' = Append(results, [url |-> urls[i], task |-> i])
    /\ UNCHANGED <<urls, max_workers, pool_max, pc, submitted, nthreads,
                   idle_sem, releasing, phase, data, gets>>
    /\ UNCHANGED notFetch

\* lines 181-194: as_completed yields a finished future; its data is appended
\* when it is truthy
Collect(i) ==
    /\ pc = "collect"
    /\ phase[i] = "done"
    /\ i \notin collected
    /\ collected' = collected \cup {i}
    /\ results' = IF data[i] = "record"
                  THEN Append(results, [url |-> urls[i], task |-> i])
                  ELSE results
    /\ UNCHANGED <<urls, max_workers, pool_max, pc, submitted, nthreads,
                   idle_sem, releasing, phase, data, gets>>
    /\ UNCHANGED notFetch

\* line 195: every future was yielded, the with block shuts the pool down
\* (waiting for its workers) and results is returned
Return ==
    /\ pc = "collect"
    /\ collected = Tasks
    /\ releasing = 0
    /\ pc' = "done"
    /\ UNCHANGED <<urls, max_workers, pool_max, submitted, nthreads, idle_sem,
                   releasing, phase, data, gets, collected, results>>
    /\ UNCHANGED notFetch

FetchNext ==
    \/ Call
    \/ Submit
    \/ \E i \in Tasks : Start(i)
    \/ \E i \in Tasks : Get(i)
    \/ \E i \in Tasks : Respond(i)
    \/ \E i \in Tasks : Analyze(i)
    \/ Release
    \/ \E i \in Tasks : Collect(i)
    \/ Return

----------------------------------------------------------------------------
(* fetch_multiple again, with the tasks counted per phase instead of named: *)
(* the state of the pool for batches longer than the default of ten workers *)

FetchIdle ==
    /\ urls = <<>>
    /\ max_workers = {}
    /\ pool_max = 0
    /\ pc = "idle"
    /\ submitted = 0
    /\ nthreads = 0
    /\ idle_sem = 0
    /\ releasing = 0
    /\ phase = <<>>
    /\ data = <<>>
    /\ gets = <<>>
    /\ collected = {}
    /\ results = <<>>

PoolIdle ==
    /\ n_urls = 0
    /\ p_max_workers = {}
    /\ p_pool_max = 0
    /\ p_pc = "idle"
    /\ n_submitted = 0
    /\ p_nthreads = 0
    /\ p_idle_sem = 0
    /\ p_releasing = 0
    /\ n_queued = 0
    /\ n_sleep = 0
    /\ n_get = 0
    /\ n_analyze = 0
    /\ n_done = 0
    /\ n_collected = 0

PoolInFlight == n_sleep + n_get + n_analyze

PoolInit ==
    /\ n_urls \in 0..MaxPoolUrls
    /\ p_max_workers \in {{}} \cup {{n} : n \in 1..MaxPoolWorkers}
    /\ p_pool_max = 0
    /\ p_pc = "call"
    /\ n_submitted = 0
    /\ p_nthreads = 0
    /\ p_idle_sem = 0
    /\ p_releasing = 0
    /\ n_queued = 0
    /\ n_sleep = 0
    /\ n_get = 0
    /\ n_analyze = 0
    /\ n_done = 0
    /\ n_collected = 0

\* lines 174-179
PoolCall ==
    /\ p_pc = "call"
    /\ IF n_urls = 0
       THEN /\ p_pc' = "done"
            /\ UNCHANGED p_pool_max
       ELSE /\ p_pool_max' = CHOOSE n \in DefaultWorkers(p_max_workers, n_urls) : TRUE
            /\ p_pc' = "submit"
    /\ UNCHANGED <<n_urls, p_max_workers, n_submitted, p_nthreads, p_idle_sem,
                   p_releasing, n_queued, n_sleep, n_get, n_analyze, n_done,
                   n_collected>>
    /\ UNCHANGED notPool

\* ThreadPoolExecutor._adjust_thread_count
PoolSpawnAllowed == p_nthreads < p_pool_max

\* line 180: executor.submit for the next entry of urls
PoolSubmit ==
    /\ p_pc = "submit"
    /\ n_submitted < n_urls
    /\ n_submitted' = n_submitted + 1
    /\ n_queued' = n_queued + 1
    /\ IF p_idle_sem > 0
       THEN /\ p_idle_sem' = p_idle_sem - 1
            /\ UNCHANGED p_nthreads
       ELSE /\ p_nthreads' = IF PoolSpawnAllowed THEN p_nthreads + 1 ELSE p_nthreads
            /\ UNCHANGED p_idle_sem
    /\ p_pc' = IF n_submitted + 1 = n_urls THEN "collect" ELSE "submit"
    /\ UNCHANGED <<n_urls, p_max_workers, p_pool_max, p_releasing, n_sleep,
                   n_get, n_analyze, n_done, n_collected>>
    /\ UNCHANGED notPool

PoolWorkerFree == PoolInFlight + p_releasing < p_nthreads

\* a free worker takes a work item and enters fetch_html (line 163)
PoolStart ==
    /\ n_queued > 0
    /\ PoolWorkerFree
    /\ n_queued' = n_queued - 1
    /\ n_sleep' = n_sleep + 1
    /\ UNCHANGED <<n_urls, p_max_workers, p_pool_max, p_pc, n_submitted,
                   p_nthreads, p_idle_sem, p_releasing, n_get, n_analyze,
                   n_done, n_collected>>
    /\ UNCHANGED notPool

\* line 164: session.get is issued
PoolGet ==
    /\ n_sleep > 0
    /\ n_sleep' = n_sleep - 1
    /\ n_get' = n_get + 1
    /\ UNCHANGED <<n_urls, p_max_workers, p_pool_max, p_pc, n_submitted,
                   p_nthreads, p_idle_sem, p_releasing, n_queued, n_analyze,
                   n_done, n_collected>>
    /\ UNCHANGED notPool

\* lines 164-165 and 170-171: the GET answers or fails
PoolRespond ==
    /\ n_get > 0
    /\ n_get' = n_get - 1
    /\ \/ /\ n_analyze' = n_analyze + 1
          /\ UNCHANGED <<n_done, p_releasing>>
       \/ /\ n_done' = n_done + 1
          /\ p_releasing' = p_releasing + 1
          /\ UNCHANGED n_analyze
    /\ UNCHANGED <<n_urls, p_max_workers, p_pool_max, p_pc, n_submitted,
                   p_nthreads, p_idle_sem, n_queued, n_sleep, n_collected>>
    /\ UNCHANGED notPool

\* lines 166-171: decode and analysis end, with a record or with None
PoolAnalyze ==
    /\ n_analyze > 0
    /\ n_analyze' = n_analyze - 1
    /\ n_done' = n_done + 1
    /\ p_releasing' = p_releasing + 1
    /\ UNCHANGED <<n_urls, p_max_workers, p_pool_max, p_pc, n_submitted,
                   p_nthreads, p_idle_sem, n_queued, n_sleep, n_get,
                   n_collected>>
    /\ UNCHANGED notPool

\* ThreadPoolExecutor._worker: _idle_semaphore.release()
PoolRelease ==
    /\ p_releasing > 0
    /\ p_releasing' = p_releasing - 1
    /\ p_idle_sem' = p_idle_sem + 1
    /\ UNCHANGED <<n_urls, p_max_workers, p_pool_max, p_pc, n_submitted,
                   p_nthreads, n_queued, n_sleep, n_get, n_analyze, n_done,
                   n_collected>>
    /\ UNCHANGED notPool

\* lines 181-194: as_completed yields a finished future
PoolCollect ==
    /\ p_pc = "collect"
    /\ n_done > 0
    /\ n_done' = n_done - 1
    /\ n_collected' = n_collected + 1
    /\ UNCHANGED <<n_urls, p_max_workers, p_pool_max, p_pc, n_submitted,
                   p_nthreads, p_idle_sem, p_releasing, n_queued, n_sleep,
                   n_get, n_analyze>>
    /\ UNCHANGED notPool

\* line 195
PoolReturn ==
    /\ p_pc = "collect"
    /\ n_collected = n_urls
    /\ p_releasing = 0
    /\ p_pc' = "done"
    /\ UNCHANGED <<n_urls, p_max_workers, p_pool_max, n_submitted, p_nthreads,
                   p_idle_sem, p_releasing, n_queued, n_sleep, n_get,
                   n_analyze, n_done, n_collected>>
    /\ UNCHANGED notPool

PoolNext ==
    \/ PoolCall
    \/ PoolSubmit
    \/ PoolStart
    \/ PoolGet
    \/ PoolRespond
    \/ PoolAnalyze
    \/ PoolRelease
    \/ PoolCollect
    \/ PoolReturn

----------------------------------------------------------------------------
(* cleaner.py: BaseCleaner.decode_cloudflare_email                         *)

Digits == {"0", "1", "2", "3", "4", "5", "6", "7", "8", "9"}
LowerHex == <<"0", "1", "2", "3", "4", "5", "6", "7", "8", "9",
              "a", "b", "c", "d", "e", "f">>
UpperHex == <<"0", "1", "2", "3", "4", "5", "6", "7", "8", "9",
              "A", "B", "C", "D", "E", "F">>
HexChars == Range(LowerHex) \cup Range(UpperHex)

\* a variant of HexVal that knows the lower-case digits only
HexValLowerOnly(c) ==
    IF c \in Range(LowerHex)
    THEN (CHOOSE k \in 1..16 : LowerHex[k] = c) - 1
    ELSE 0 - 1

\* the value int(..., 16) gives one digit, -1 for a character that is none
HexVal(c) ==
    IF c \in Range(LowerHex)
    THEN (CHOOSE k \in 1..16 : LowerHex[k] = c) - 1
    ELSE IF c \in Range(UpperHex)
         THEN (CHOOSE k \in 1..16 : UpperHex[k] = c) - 1
         ELSE 0 - 1

RECURSIVE LStrip(_)
LStrip(s) == IF s # <<>> /\ Head(s) = " " THEN LStrip(Tail(s)) ELSE s
RECURSIVE RStrip(_)
RStrip(s) == IF s # <<>> /\ s[Len(s)] = " " THEN RStrip(SubSeq(s, 1, Len(s) - 1)) ELSE s
Strip(s) == RStrip(LStrip(s))

RECURSIVE HexNumber(_)
HexNumber(s) == IF s = <<>> THEN 0 ELSE 16 * HexNumber(SubSeq(s, 1, Len(s) - 1)) + HexVal(s[Len(s)])

\* Python's int(s, 16) on a slice of at most two characters: surrounding
\* white space is dropped, a sign is accepted, then come one or more hex
\* digits (a slice that short has no room for a 0x prefix or an underscore
\* followed by digits); anything else is a ValueError
PyInt16(s) ==
    LET t == Strip(s)
        signed == t # <<>> /\ t[1] \in {"+", "-"}
        body == IF signed THEN Tail(t) ELSE t
        good == body # <<>> /\ \A k \in 1..Len(body) : HexVal(body[k]) >= 0
    IN  IF ~good THEN [ok |-> FALSE, val |-> 0]
        ELSE [ok |-> TRUE,
              val |-> IF signed /\ t[1] = "-" THEN 0 - HexNumber(body) ELSE HexNumber(body)]

RECURSIVE XorNat(_, _)
XorNat(a, b) ==
    IF a = 0 THEN b
    ELSE IF b = 0 THEN a
    ELSE (((a % 2) + (b % 2)) % 2) + 2 * XorNat(a \div 2, b \div 2)

\* Python's ^ on integers of either sign (two's complement of any width)
PyXor(a, b) ==
    CASE a >= 0 /\ b >= 0 -> XorNat(a, b)
      [] a < 0 /\ b < 0 -> XorNat(0 - a - 1, 0 - b - 1)
      [] a < 0 /\ b >= 0 -> 0 - XorNat(0 - a - 1, b) - 1
      [] a >= 0 /\ b < 0 -> 0 - XorNat(a, 0 - b - 1) - 1

\* chr(x) is defined for 0 <= x < 0x110000 and raises ValueError otherwise
ChrOk(x) == 0 <= x /\ x < 1114112

\* cfemail[i:i+2] for a 0-based i
Slice2(cf, i) == SubSeq(cf, i + 1, Min(i + 2, Len(cf)))

\* lines 19-20, the body of the try: ok is FALSE when an exception is raised
DecodeBody(cf) ==
    LET n == PyInt16(Slice2(cf, 0))
        idx == {i \in 2..(Len(cf) - 1) : i % 2 = 0}
        byte(i) == PyInt16(Slice2(cf, i))
        code(i) == PyXor(byte(i).val, n.val)
    IN  IF ~n.ok \/ \E i \in idx : ~byte(i).ok \/ ~ChrOk(code(i))
        THEN [ok |-> FALSE, val |-> <<>>]
        ELSE [ok |-> TRUE,
              val |-> [k \in 1..Cardinality(idx) |-> code(2 * k)]]

\* lines 17-22
decode_cloudflare_email(cf) ==
    LET r == DecodeBody(cf)
    IN  IF r.ok THEN [raised |-> FALSE, val |-> r.val]
        ELSE [raised |-> FALSE, val |-> <<>>]

\* the obfuscation scheme, as the producer of a payload applies it: the key
\* as two hex digits, then every character XOR the key as two hex digits
Hex2(b, digits) == <<digits[(b \div 16) + 1], digits[(b % 16) + 1]>>
RECURSIVE CfEncode(_, _, _)
CfEncode(e, k, digits) ==
    IF e = <<>> THEN Hex2(k, digits)
    ELSE CfEncode(SubSeq(e, 1, Len(e) - 1), k, digits) \o Hex2(XorNat(e[Len(e)], k), digits)

\* inputs: every string of at most MaxPayload characters over PayloadChars,
\* and the encodings of the e-mails below under every key
PayloadChars == {"0", "7", "a", "F", "g", "+", "-", " ", "x", "_"}
EmailCodes == {0, 46, 64, 97, 122, 127}
Emails == {<<c>> : c \in 0..127} \cup SeqsUpTo(EmailCodes, MaxEmail)

DecIdle ==
    /\ cfemail = <<>>
    /\ d_src = "idle"
    /\ d_email = <<>>
    /\ d_key = 0
    /\ decoded = <<>>
    /\ d_raised = FALSE
    /\ d_pc = "idle"

DecInit ==
    /\ \/ /\ d_src = "raw"
          /\ cfemail \in SeqsUpTo(PayloadChars, MaxPayload)
          /\ d_email = <<>>
          /\ d_key = 0
       \/ /\ d_src = "encoded"
          /\ d_email \in Emails
          /\ d_key \in 0..255
          /\ \E digits \in {LowerHex, UpperHex} : cfemail = CfEncode(d_email, d_key, digits)
    /\ decoded = <<>>
    /\ d_raised = FALSE
    /\ d_pc = "ready"

Decode ==
    /\ d_pc = "ready"
    /\ LET r == decode_cloudflare_email(cfemail)
       IN  /\ decoded' = r.val
           /\ d_raised' = r.raised
    /\ d_pc' = "returned"
    /\ UNCHANGED <<cfemail, d_src, d_email, d_key>>
    /\ UNCHANGED notDec

DecNext == Decode

----------------------------------------------------------------------------
(* fetcher.py: BaseScraper.clean_number, is_valid_phone, detect_signals    *)

IsDigit(c) == c \in Digits

\* line 92: re.sub(r"\D", "", text)
RECURSIVE clean_number(_)
clean_number(text) ==
    IF text = <<>> THEN <<>>
    ELSE IF IsDigit(Head(text)) THEN <<Head(text)>> \o clean_number(Tail(text))
    ELSE clean_number(Tail(text))

\* clean.startswith(("16", "17"))
StartsWith16or17(clean) ==
    Len(clean) >= 2 /\ clean[1] = "1" /\ clean[2] \in {"6", "7"}

\* a variant of is_valid_phone that lets seven digits through
is_valid_phone_seven(num) ==
    LET clean == clean_number(num)
    IN  IF Len(clean) < 7 \/ Len(clean) > 12 THEN FALSE
        ELSE IF Len(clean) >= 13 THEN FALSE
        ELSE IF Len(clean) >= 11 /\ StartsWith16or17(clean) THEN FALSE
        ELSE IF Cardinality(Range(clean)) = 1 THEN FALSE
        ELSE TRUE

\* lines 94-104
is_valid_phone(num) ==
    LET clean == clean_number(num)
    IN  IF Len(clean) < 8 \/ Len(clean) > 12 THEN FALSE
        ELSE IF Len(clean) >= 13 THEN FALSE
        ELSE IF Len(clean) >= 11 /\ StartsWith16or17(clean) THEN FALSE
        ELSE IF Cardinality(Range(clean)) = 1 THEN FALSE
        ELSE TRUE

\* the class [\d\s\-\(\)] of PHONE_REGEX
InPhoneClass(c) == IsDigit(c) \/ c \in {" ", "-", "(", ")"}

\* the index of the last character of the match of PHONE_REGEX
\* (\+?\d[\d\s\-\(\)]{6,}\d) that begins at index p, or 0 when there is none:
\* an optional +, a digit, then the longest run of class characters that
\* leaves at least six of them before a final digit
PhoneMatchEnd(text, p) ==
    LET first == IF text[p] = "+" THEN p + 1 ELSE p
        ends == {e \in (first + 7)..Len(text) :
                    /\ IsDigit(text[e])
                    /\ \A k \in (first + 1)..e : InPhoneClass(text[k])}
    IN  IF first > Len(text) \/ ~IsDigit(text[first]) \/ ends = {}
        THEN 0
        ELSE CHOOSE e \in ends : \A f \in ends : f <= e

\* line 110: PHONE_REGEX.finditer(html), the matches from index pos on
RECURSIVE PhoneMatches(_, _)
PhoneMatches(text, pos) ==
    IF pos > Len(text) THEN <<>>
    ELSE LET e == PhoneMatchEnd(text, pos)
         IN  IF e = 0 THEN PhoneMatches(text, pos + 1)
             ELSE <<SubSeq(text, pos, e)>> \o PhoneMatches(text, e + 1)

\* lines 110-117 and 121-123 of detect_signals
detect_signals(html) ==
    LET cands == PhoneMatches(html, 1)
        phones == {clean_number(cands[k]) : k \in {k \in 1..Len(cands) : is_valid_phone(cands[k])}}
    IN  [phone_candidates |-> cands, phones_found |-> phones, has_phone |-> phones # {}]

\* inputs
Rep(c, n) == [k \in 1..n |-> c]
PhonePrefixes == [1..2 -> {"1", "5", "6", "7"}]
PhoneExamples == {<<"1", "2", "3", "4", "5", "6", "7", "8">>,
                  <<"5", "5", "5", "1", "2", "3", "4", "5", "6", "7">>,
                  <<"1", "1", "1", "1", "1", "1", "1", "1", "1", "1">>,
                  <<"1", "6", "5", "5", "5", "5", "1", "2", "3", "4", "5">>}
PhoneInputs ==
    PhoneExamples \cup
    {lead \o pre \o Rep(d, n) \o suf :
        lead \in {<<>>, <<"+">>, <<"(">>}, pre \in PhonePrefixes, d \in {"1", "5"},
        n \in 0..MaxRun, suf \in {<<>>, <<"2">>, <<"-", "1">>}}
SignalNumbers ==
    {lead \o pre \o Rep(d, n) :
        lead \in {<<>>, <<"+">>}, pre \in {<<"1", "6">>, <<"5", "5">>, <<"1", "1">>},
        d \in {"1", "5"}, n \in {4, 6, 9, 11}}
SignalInputs ==
    {<<>>} \cup
    {a \o sep \o b : a \in SignalNumbers, b \in SignalNumbers,
                      sep \in {<<"x">>, <<" ">>, <<" ", "t", "e", "l", ":">>}}

PhoneIdle ==
    /\ ph_op = "idle"
    /\ number = <<>>
    /\ valid = FALSE
    /\ sig_html = <<>>
    /\ phone_candidates = <<>>
    /\ phones_found = {}
    /\ has_phone = FALSE
    /\ ph_pc = "idle"

PhoneInit ==
    /\ \/ /\ ph_op = "is_valid_phone"
          /\ number \in PhoneInputs
          /\ sig_html = <<>>
       \/ /\ ph_op = "detect_signals"
          /\ number = <<>>
          /\ sig_html \in SignalInputs
    /\ valid = FALSE
    /\ phone_candidates = <<>>
    /\ phones_found = {}
    /\ has_phone = FALSE
    /\ ph_pc = "ready"

IsValidPhone ==
    /\ ph_pc = "ready"
    /\ ph_op = "is_valid_phone"
    /\ valid' = is_valid_phone(number)
    /\ ph_pc' = "returned"
    /\ UNCHANGED <<ph_op, number, sig_html, phone_candidates, phones_found, has_phone>>
    /\ UNCHANGED notPhone

DetectSignals ==
    /\ ph_pc = "ready"
    /\ ph_op = "detect_signals"
    /\ LET r == detect_signals(sig_html)
       IN  /\ phone_candidates' = r.phone_candidates
           /\ phones_found' = r.phones_found
           /\ has_phone' = r.has_phone
    /\ ph_pc' = "returned"
    /\ UNCHANGED <<ph_op, number, valid, sig_html>>
    /\ UNCHANGED notPhone

PhoneNext == IsValidPhone \/ DetectSignals

----------------------------------------------------------------------------
(* cleaner.py: the deduplication stage of HtmlCleaner.clean_html           *)

UpperLetters == <<"A", "B", "C", "D", "E", "F", "G", "H", "I", "J", "K", "L", "M",
                  "N", "O", "P", "Q", "R", "S", "T", "U", "V", "W", "X", "Y", "Z">>
LowerLetters == <<"a", "b", "c", "d", "e", "f", "g", "h", "i", "j", "k", "l", "m",
                  "n", "o", "p", "q", "r", "s", "t", "u", "v", "w", "x", "y", "z">>

\* str.lower()
LowerChar(c) ==
    IF c \in Range(UpperLetters)
    THEN LowerLetters[CHOOSE k \in 1..26 : UpperLetters[k] = c]
    ELSE c
Lower(text) == [k \in 1..Len(text) |-> LowerChar(text[k])]

\* whether lit occurs in text at index p
OccursAt(text, p, lit) ==
    /\ p + Len(lit) - 1 <= Len(text)
    /\ text[p] = lit[1]
    /\ SubSeq(text, p, p + Len(lit) - 1) = lit

\* the index after the white space that begins at index p
RECURSIVE SkipSpaces(_, _)
SkipSpaces(text, p) ==
    IF p <= Len(text) /\ text[p] = " " THEN SkipSpaces(text, p + 1) ELSE p

\* whether :\s*(https?://|/) matches at index p
LinkSuffixAt(text, p) ==
    /\ text[p] = ":"
    /\ LET r == SkipSpaces(text, p + 1)
       IN  \/ OccursAt(text, r, <<"h", "t", "t", "p", ":", "/", "/">>)
           \/ OccursAt(text, r, <<"h", "t", "t", "p", "s", ":", "/", "/">>)
           \/ OccursAt(text, r, <<"/">>)

\* the index where the leftmost match of :\s*(https?://|/).*?$ begins, from
\* index p on; Len(text) + 1 when there is none
RECURSIVE LinkSuffixStart(_, _)
LinkSuffixStart(text, p) ==
    IF p > Len(text) THEN p
    ELSE IF LinkSuffixAt(text, p) THEN p
    ELSE LinkSuffixStart(text, p + 1)

\* a variant of normalized_key that keeps the case
normalized_key_cased(line) ==
    Strip(SubSeq(line, 1, LinkSuffixStart(line, 1) - 1))

\* line 86: re.sub(r":\s*(https?://|/).*?$", "", line).strip().lower()
normalized_key(line) ==
    Lower(Strip(SubSeq(line, 1, LinkSuffixStart(line, 1) - 1)))

\* inputs: sequences of at most MaxLines of these lines
DedupLineSet == {
    <<"C", "o", "n", "t", "a", "c", "t", " ", "u", "s", ":", " ", "h", "t", "t", "p", "s", ":", "/", "/", "a", ".", "c", "o", "m", "/", "x">>,
    <<"C", "o", "n", "t", "a", "c", "t", " ", "u", "s", ":", " ", "/", "y">>,
    <<"c", "o", "n", "t", "a", "c", "t", " ", "u", "s">>,
    <<"C", "O", "N", "T", "A", "C", "T", " ", "U", "S", ":", "/", "z">>,
    <<"C", "o", "n", "t", "a", "c", "t", " ", "u", "s", ":", " ", "h", "t", "t", "p", ":", "/", "/", "b">>,
    <<"C", "o", "n", "t", "a", "c", "t", " ", "u", "s", " ", ":", " ", "/", "y">>,
    <<"C", "o", "n", "t", "a", "c", "t", ":", " ", "u", "s", "/">>,
    <<"H", "o", "m", "e">>,
    <<" ", "H", "o", "m", "e", " ">>,
    <<"h", "o", "m", "e", ":", " ", "f", "t", "p", ":", "/", "/", "x">>,
    <<"H", "o", "m", "e", ":", " ", "H", "T", "T", "P", "S", ":", "/", "/", "x">>,
    <<":", " ", "/", "o", "n", "l", "y">>,
    <<"A", ":", " ", "x", ":", " ", "/", "p">>,
    <<>>,
    <<" ", " ">>}

DedupIdle ==
    /\ lines_in = <<>>
    /\ dd_next = 0
    /\ seen = {}
    /\ dedup_lines = <<>>
    /\ dd_pc = "idle"

\* lines 80-81
DedupInit ==
    /\ lines_in \in SeqsUpTo(DedupLineSet, MaxLines)
    /\ dd_next = 1
    /\ seen = {}
    /\ dedup_lines = <<>>
    /\ dd_pc = "loop"

\* lines 82-89: one turn of the loop
DedupStep ==
    /\ dd_pc = "loop"
    /\ dd_next <= Len(lines_in)
    /\ LET line == Strip(lines_in[dd_next])
           key == normalized_key(line)
       IN  IF line = <<>> \/ key \in seen
           THEN UNCHANGED <<seen, dedup_lines>>
           ELSE /\ seen' = seen \cup {key}
                /\ dedup_lines' = Append(dedup_lines, line)
    /\ dd_next' = dd_next + 1
    /\ UNCHANGED <<lines_in, dd_pc>>
    /\ UNCHANGED notDedup

\* line 91: the loop is over and the lines are joined and returned
DedupReturn ==
    /\ dd_pc = "loop"
    /\ dd_next > Len(lines_in)
    /\ dd_pc' = "returned"
    /\ UNCHANGED <<lines_in, dd_next, seen, dedup_lines>>
    /\ UNCHANGED notDedup

DedupNext == DedupStep \/ DedupReturn

----------------------------------------------------------------------------
(* text_utils.py: find_string_in_html                                      *)

DEFAULT_CONTEXT == 50

\* the index after the run of non-digits (\D*) that begins at index p
RECURSIVE SkipNonDigits(_, _)
SkipNonDigits(text, p) ==
    IF p <= Len(text) /\ ~IsDigit(text[p]) THEN SkipNonDigits(text, p + 1) ELSE p

\* line 79: the pattern made of every digit of ds followed by \D*, tried at
\* index p: the index after the match, 0 when it does not match there
RECURSIVE DigitPatternEnd(_, _, _)
DigitPatternEnd(text, p, ds) ==
    IF ds = <<>> THEN p
    ELSE IF p > Len(text) \/ text[p] # Head(ds) THEN 0
    ELSE DigitPatternEnd(text, SkipNonDigits(text, p + 1), Tail(ds))

\* line 81: re.escape(target) under re.IGNORECASE, tried at index p
LiteralPatternEnd(text, p, lit) ==
    IF p + Len(lit) - 1 <= Len(text)
       /\ Lower(SubSeq(text, p, p + Len(lit) - 1)) = Lower(lit)
    THEN p + Len(lit)
    ELSE 0

\* lines 77-81: the pattern for this target, tried at index p
PatternEnd(text, p, tgt) ==
    LET ds == clean_number(tgt)
    IN  IF ds # <<>> THEN DigitPatternEnd(text, p, ds) ELSE LiteralPatternEnd(text, p, tgt)

\* lines 85-95: the hit for the match text[p .. e-1]; offsets count from 0
Hit(text, p, e, ctx) ==
    LET s0 == p - 1
        e0 == e - 1
        snippet_start == Max(0, s0 - ctx)
        snippet_end == Min(Len(text), e0 + ctx)
    IN  [source |-> "raw",
         match |-> SubSeq(text, p, e - 1),
         start |-> s0,
         end |-> e0,
         snippet |-> SubSeq(text, snippet_start + 1, snippet_end)]

\* line 84: re.finditer, the matches from index pos on, leftmost first and
\* not overlapping
RECURSIVE Search(_, _, _, _)
Search(text, pos, tgt, ctx) ==
    IF pos > Len(text) THEN <<>>
    ELSE LET e == PatternEnd(text, pos, tgt)
         IN  IF e = 0 THEN Search(text, pos + 1, tgt, ctx)
             ELSE <<Hit(text, pos, e, ctx)>> \o Search(text, e, tgt, ctx)

\* lines 57-102
find_string_in_html(tgt, html, ctx) ==
    IF tgt = <<>> \/ html = <<>> THEN <<>> ELSE Search(html, 1, tgt, ctx)

\* inputs
LocExampleTarget == <<"4", "4", "9", " ", "8", "0", "5", " ", "5", "3", "3", "7">>
LocExampleHtml ==
    <<"<", "p", ">", "c", "a", "l", "l", " ", "4", "4", "9", "-", "8", "0">> \o
    <<"5", "-", "5", "3", "3", "7", " ", "n", "o", "w", "<", "/", "p", ">">>
LocTargets == {<<>>, <<"4">>, <<"4", "9">>, <<"4", " ", "9">>, <<"9", "4">>,
               <<"a">>, <<"A", "-">>, LocExampleTarget}
LocHtmls == {LocExampleHtml} \cup SeqsUpTo({"4", "9", "-", "a", "A"}, MaxHtml)

LocIdle ==
    /\ target = <<>>
    /\ loc_html = <<>>
    /\ context_chars = 0
    /\ loc_hits = <<>>
    /\ loc_pc = "idle"

LocInit ==
    /\ target \in LocTargets
    /\ loc_html \in LocHtmls
    /\ context_chars \in {0, 2, DEFAULT_CONTEXT}
    /\ loc_hits = <<>>
    /\ loc_pc = "ready"

FindStringInHtml ==
    /\ loc_pc = "ready"
    /\ loc_hits' = find_string_in_html(target, loc_html, context_chars)
    /\ loc_pc' = "returned"
    /\ UNCHANGED <<target, loc_html, context_chars>>
    /\ UNCHANGED notLoc

LocNext == FindStringInHtml

----------------------------------------------------------------------------
(* fetcher.py: BaseScraper.detect_framework                                *)
(* The markup is kept as the sequence of its tags and text runs, which is  *)
(* what the HTML parser makes of it; the substring and regex checks run on *)
(* the characters of their concatenation.                                  *)

RECURSIVE Flatten(_)
Flatten(segs) == IF segs = <<>> THEN <<>> ELSE Head(segs) \o Flatten(Tail(segs))

\* lit in text
HasText(text, sub) ==
    \E p \in 1..(Len(text) - Len(sub) + 1) :
        text[p] = sub[1] /\ SubSeq(text, p, p + Len(sub) - 1) = sub

Quotes == {"\"", "'"}

\* line 134: re.search(r"<div[^>]+id=[\"\']root[\"\']", lower_html)
DivRootRegex(text) ==
    \E p \in 1..Len(text) :
        /\ OccursAt(text, p, <<"<", "d", "i", "v">>)
        /\ \E r \in (p + 5)..Len(text) :
              /\ \A k \in (p + 4)..(r - 1) : text[k] # ">"
              /\ OccursAt(text, r, <<"i", "d", "=">>)
              /\ r + 8 <= Len(text)
              /\ text[r + 3] \in Quotes
              /\ SubSeq(text, r + 4, r + 7) = <<"r", "o", "o", "t">>
              /\ text[r + 8] \in Quotes

\* a variant of ReactFound that knows the substring markers only
ReactFoundNoRegex(l) ==
    \/ HasText(l, <<"d", "a", "t", "a", "-", "r", "e", "a", "c", "t", "r", "o", "o", "t">>)
    \/ HasText(l, <<"r", "e", "a", "c", "t", "r", "o", "o", "t">>)
    \/ HasText(l, <<"_", "_", "r", "e", "a", "c", "t">>)
    \/ HasText(l, <<"r", "e", "a", "c", "t", "-", "d", "o", "m">>)

\* lines 129-142: the four fingerprints, on lower_html
ReactFound(l) ==
    \/ HasText(l, <<"d", "a", "t", "a", "-", "r", "e", "a", "c", "t", "r", "o", "o", "t">>)
    \/ HasText(l, <<"r", "e", "a", "c", "t", "r", "o", "o", "t">>)
    \/ HasText(l, <<"_", "_", "r", "e", "a", "c", "t">>)
    \/ HasText(l, <<"r", "e", "a", "c", "t", "-", "d", "o", "m">>)
    \/ DivRootRegex(l)
VueFound(l) ==
    \/ HasText(l, <<"i", "d", "=", "\"", "a", "p", "p", "\"">>)
    \/ HasText(l, <<"d", "a", "t", "a", "-", "v", "-">>)
    \/ HasText(l, <<"v", "u", "e", ".", "j", "s">>)
    \/ HasText(l, <<"v", "u", "e", ".", "r", "u", "n", "t", "i", "m", "e">>)
AngularFound(l) ==
    \/ HasText(l, <<"n", "g", "-", "a", "p", "p">>)
    \/ HasText(l, <<"n", "g", "-", "v", "e", "r", "s", "i", "o", "n">>)
    \/ HasText(l, <<"a", "n", "g", "u", "l", "a", "r", ".", "j", "s">>)
    \/ HasText(l, <<"n", "g", "-">>)
NextjsFound(l) ==
    \/ HasText(l, <<"_", "_", "n", "e", "x", "t">>)
    \/ HasText(l, <<"/", "_", "n", "e", "x", "t", "/">>)
    \/ HasText(l, <<"n", "e", "x", "t", ".", "c", "o", "n", "f", "i", "g">>)

\* the parser's view of one segment: the lower-cased name of an opening
\* tag, of a closing tag, or nothing for a text run
RECURSIVE NameFrom(_, _)
NameFrom(seg, p) ==
    IF p > Len(seg) \/ seg[p] \in {" ", ">", "/"} THEN <<>>
    ELSE <<LowerChar(seg[p])>> \o NameFrom(seg, p + 1)
IsOpenTag(seg) == Len(seg) >= 2 /\ seg[1] = "<" /\ seg[2] # "/"
IsCloseTag(seg) == Len(seg) >= 2 /\ seg[1] = "<" /\ seg[2] = "/"
OpenName(seg) == IF IsOpenTag(seg) THEN NameFrom(seg, 2) ELSE <<>>
CloseName(seg) == IF IsCloseTag(seg) THEN NameFrom(seg, 3) ELSE <<>>

MeaningfulNames == {<<"p">>, <<"h", "1">>, <<"h", "2">>, <<"h", "3">>, <<"l", "i">>}
BodyName == <<"b", "o", "d", "y">>

\* body.find_all([...]) from segment k on: the tags inside the body, which
\* its closing tag ends
RECURSIVE CountInBody(_, _)
CountInBody(segs, k) ==
    IF k > Len(segs) \/ CloseName(segs[k]) = BodyName THEN 0
    ELSE (IF OpenName(segs[k]) \in MeaningfulNames THEN 1 ELSE 0) + CountInBody(segs, k + 1)

\* lines 144-148: soup.body is the first body tag; without one the count is 0
RECURSIVE MeaningfulTags(_, _)
MeaningfulTags(segs, k) ==
    IF k > Len(segs) THEN 0
    ELSE IF OpenName(segs[k]) = BodyName THEN CountInBody(segs, k + 1)
    ELSE MeaningfulTags(segs, k + 1)

\* line 150
Traditional(is_spa, meaningful_tags) == ~is_spa /\ meaningful_tags > 5

\* line 152: the names of the flags that are set, in the dictionary's order
DetectedList(frameworks) ==
    SelectSeq(<<"react", "vue", "angular", "nextjs">>, LAMBDA f : frameworks[f])

\* lines 126-155
detect_framework(segs) ==
    LET lower_html == Lower(Flatten(segs))
        frameworks == [f \in {"react", "vue", "angular", "nextjs"} |->
                         CASE f = "react" -> ReactFound(lower_html)
                           [] f = "vue" -> VueFound(lower_html)
                           [] f = "angular" -> AngularFound(lower_html)
                           [] f = "nextjs" -> NextjsFound(lower_html)]
        meaningful_tags == MeaningfulTags(segs, 1)
        is_spa == \E f \in DOMAIN frameworks : frameworks[f]
    IN  [frameworks_detected |-> DetectedList(frameworks),
         is_spa_like |-> is_spa,
         is_html_traditional |-> Traditional(is_spa, meaningful_tags)]

\* inputs: an optional body tag, at most MaxMarkers marker segments, at most
\* MaxTags tags of one kind, an optional other tag, an optional closing body
\* tag and an optional paragraph after it
SegDivRoot == <<"<", "d", "i", "v", " ", "i", "d", "=", "\"", "r", "o", "o", "t", "\"", ">">>
SegDivRootUpper == <<"<", "D", "I", "V", " ", "C", "L", "A", "S", "S", "=", "'", "A", "'", " ", "I", "D", "=", "'", "R", "O", "O", "T", "'", ">">>
SegSpanRoot == <<"<", "s", "p", "a", "n", " ", "i", "d", "=", "\"", "r", "o", "o", "t", "\"", ">">>
SegIdRootText == <<"i", "d", "=", "\"", "r", "o", "o", "t", "\"">>
SegReactDom == <<"r", "e", "a", "c", "t", "-", "d", "o", "m", ".", "j", "s">>
SegVue == <<"<", "d", "i", "v", " ", "i", "d", "=", "\"", "a", "p", "p", "\"", ">">>
SegAngular == <<"<", "a", " ", "c", "l", "a", "s", "s", "=", "\"", "n", "g", "-", "x", "\"", ">">>
SegNext == <<"<", "d", "i", "v", " ", "i", "d", "=", "\"", "_", "_", "n", "e", "x", "t", "\"", ">">>
SegBody == <<"<", "b", "o", "d", "y", ">">>
SegBodyEnd == <<"<", "/", "B", "O", "D", "Y", ">">>
SegP == <<"<", "p", ">">>
SegH4 == <<"<", "h", "4", ">">>
SegLi == <<"<", "l", "i", ">">>
SegH1 == <<"<", "H", "1", " ", "c", "l", "a", "s", "s", "=", "\"", "t", "\"", ">">>
MarkerSegs == {SegDivRoot, SegDivRootUpper, SegSpanRoot, SegIdRootText, SegReactDom,
               SegVue, SegAngular, SegNext}
FwInputs ==
    {body \o markers \o Rep(tag, n) \o other \o close \o after :
        body \in {<<>>, <<SegBody>>},
        markers \in SeqsUpTo(MarkerSegs, MaxMarkers),
        tag \in {SegP, SegH4},
        n \in 0..MaxTags,
        other \in {<<>>, <<SegLi>>, <<SegH1>>},
        close \in {<<>>, <<SegBodyEnd>>},
        after \in {<<>>, <<SegP>>}}

FwIdle ==
    /\ fw_html = <<>>
    /\ fw_info = [frameworks_detected |-> <<>>, is_spa_like |-> FALSE,
                  is_html_traditional |-> FALSE]
    /\ fw_pc = "idle"

FwInit ==
    /\ fw_html \in FwInputs
    /\ fw_info = [frameworks_detected |-> <<>>, is_spa_like |-> FALSE,
                  is_html_traditional |-> FALSE]
    /\ fw_pc = "ready"

DetectFramework ==
    /\ fw_pc = "ready"
    /\ fw_info' = detect_framework(fw_html)
    /\ fw_pc' = "returned"
    /\ UNCHANGED fw_html
    /\ UNCHANGED notFw

FwNext == DetectFramework

----------------------------------------------------------------------------
(* Claims about fetch_multiple *)

Occurrences(u) == Cardinality({i \in Tasks : urls[i] = u})
RecordsOf(u) == Cardinality({k \in 1..Len(results) : results[k].url = u})

\* C1 as stated: once fetch_multiple has returned, the list holds exactly
\* N-K records, every record's url is one of the input URLs, and no two
\* records carry the same url.
C1_Original ==
    pc = "done" =>
        /\ Len(results) = Len(urls) - Cardinality(Failed)
        /\ \A k \in 1..Len(results) : results[k].url \in Range(urls)
        /\ \A k, l \in 1..Len(results) : k # l => results[k].url # results[l].url

\* C1 amended: once fetch_multiple has returned, the list holds exactly N-K
\* records, every record's url is one of the input URLs, no entry of the
\* input yields two records, a url occurs among the records at most as often
\* as it occurs in the input, and so no two records carry the same url when
\* the input URLs are pairwise distinct.
C1_ResultCount ==
    pc = "done" =>
        /\ Len(results) = Len(urls) - Cardinality(Failed)
        /\ \A k \in 1..Len(results) : results[k].url \in Range(urls)
        /\ \A k, l \in 1..Len(results) : k # l => results[k].task # results[l].task
        /\ \A u \in URLS : RecordsOf(u) <= Occurrences(u)
        /\ (\A i, j \in Tasks : i # j => urls[i] # urls[j])
              => \A k, l \in 1..Len(results) : k # l => results[k].url # results[l].url

\* a batch of three entries, one failed, returned out of submission order
C1_Witness ==
    /\ pc = "done"
    /\ Len(urls) = 3
    /\ Cardinality(Failed) = 1
    /\ Len(results) = 2
    /\ results[1].task > results[2].task

\* C2: under fair scheduling fetch_multiple eventually returns, and when it
\* has returned every submitted task has completed and was collected, every
\* URL was fetched, and the record of every task that succeeded is in the
\* list whatever the other tasks did.
C2_AlwaysReturns ==
    /\ <>(pc = "done")
    /\ [](pc = "done" =>
            /\ \A i \in Tasks : phase[i] = "done" /\ i \in collected /\ gets[i] = 1
            /\ \A i \in Succeeded :
                 \E k \in 1..Len(results) : results[k] = [url |-> urls[i], task |-> i])

\* the call returned although the first entry failed, and the second is there
C2_Witness ==
    /\ pc = "done"
    /\ Len(urls) >= 2
    /\ data[1] = "None"
    /\ data[2] = "record"
    /\ \E k \in 1..Len(results) : results[k].task = 2

\* C4: no retries.  A task issues at most one GET, it issues it from its
\* jitter sleep, every task has issued exactly one GET when the call
\* returns, and a task whose attempt failed has no record in the list.
C4_NoRetries ==
    /\ [](\A i \in Tasks : gets[i] <= 1)
    /\ [][\A i \in Tasks : gets'[i] # gets[i] => phase[i] = "sleep" /\ gets[i] = 0]_vars
    /\ [](pc = "done" => \A i \in Tasks : gets[i] = 1)
    /\ [](\A i \in Failed : \A k \in 1..Len(results) : results[k].task # i)

\* a task failed after its single GET and the call returned without it
C4_Witness ==
    /\ pc = "done"
    /\ \E i \in Failed : gets[i] = 1 /\ \A k \in 1..Len(results) : results[k].task # i

----------------------------------------------------------------------------
(* Claims about the pool *)

\* C3: at every moment of a fetch_multiple run the number of URLs in flight
\* (in the jitter sleep, in the GET or in analysis) is at most the
\* concurrency bound: the caller's max_workers if given, min(10, number of
\* URLs) otherwise; every other submitted URL waits in the queue, is done
\* or was collected, and each one in flight has a worker thread of its own.
C3_InFlightBounded ==
    LET bound == IF p_max_workers = {}
                 THEN (IF n_urls < 10 THEN n_urls ELSE 10)
                 ELSE CHOOSE n \in p_max_workers : TRUE
    IN  /\ PoolInFlight <= bound
        /\ p_nthreads <= bound
        /\ n_queued + PoolInFlight + n_done + n_collected = n_submitted
        /\ PoolInFlight + p_releasing <= p_nthreads

\* eleven URLs and no max_workers: ten are in flight and the eleventh waits
C3_Witness ==
    /\ n_urls = 11
    /\ p_max_workers = {}
    /\ PoolInFlight = 10
    /\ n_queued = 1

----------------------------------------------------------------------------
(* Claims about decode_cloudflare_email *)

Malformed(cf) ==
    \/ cf = <<>>
    \/ Len(cf) % 2 = 1
    \/ \E k \in 1..Len(cf) : cf[k] \notin HexChars

\* C5 as stated: for a malformed payload (odd length, a non-hex character,
\* or the empty string) decode_cloudflare_email returns the empty string and
\* does not raise.
C5_MalformedYieldsEmpty ==
    (d_pc = "returned" /\ d_src = "raw" /\ Malformed(cfemail))
        => decoded = <<>> /\ ~d_raised

\* C6: the payload made of the key as two hex digits followed by every
\* character of an ASCII e-mail XOR the key as two hex digits decodes to
\* exactly that e-mail, for every key byte.
C6_RoundTrip ==
    (d_pc = "returned" /\ d_src = "encoded")
        => decoded = d_email /\ ~d_raised

\* "a@" under key 255, written with upper-case digits, came back as "a@"
C6_Witness ==
    /\ d_pc = "returned"
    /\ d_src = "encoded"
    /\ d_email = <<97, 64>>
    /\ d_key = 255
    /\ cfemail = <<"F", "F", "9", "E", "B", "F">>
    /\ decoded = <<97, 64>>

----------------------------------------------------------------------------
(* Claims about is_valid_phone and detect_signals *)

DigitsOnly(text) == SelectSeq(text, LAMBDA c : c \in Digits)

PhoneRule(d) ==
    /\ 8 <= Len(d) /\ Len(d) <= 12
    /\ ~(\A k \in 1..Len(d) : d[k] = d[1])
    /\ ~(Len(d) \in {11, 12} /\ SubSeq(d, 1, 2) \in {<<"1", "6">>, <<"1", "7">>})

\* C7: is_valid_phone accepts a candidate exactly when its digit-only form
\* has 8 to 12 digits, is not one repeated digit and is not an 11- or
\* 12-digit string beginning with 16 or 17; "12345678" and "5551234567" are
\* valid, "1111111111" and "16555512345" are not; and every value in
\* phones_found is a digits-only string that satisfies the rule.
C7_PhoneRule ==
    /\ (ph_pc = "returned" /\ ph_op = "is_valid_phone") =>
          /\ valid = PhoneRule(DigitsOnly(number))
          /\ number \in {<<"1", "2", "3", "4", "5", "6", "7", "8">>, <<"5", "5", "5", "1", "2", "3", "4", "5", "6", "7">>} => valid
          /\ number \in {<<"1", "1", "1", "1", "1", "1", "1", "1", "1", "1">>, <<"1", "6", "5", "5", "5", "5", "1", "2", "3", "4", "5">>} => ~valid
    /\ (ph_pc = "returned" /\ ph_op = "detect_signals") =>
          /\ \A ph \in phones_found : ph = DigitsOnly(ph) /\ PhoneRule(ph)
          /\ has_phone = (phones_found # {})

\* detect_signals met two candidates, kept one and dropped the other
C7_Witness ==
    /\ ph_pc = "returned"
    /\ ph_op = "detect_signals"
    /\ Len(phone_candidates) = 2
    /\ Cardinality(phones_found) = 1
    /\ \E k \in 1..2 : DigitsOnly(phone_candidates[k]) \notin phones_found

----------------------------------------------------------------------------
(* Claims about the deduplication stage *)

\* where the trailing ": <http(s)-URL-or-/path>" suffix of a line begins
SuffixStarts(line) ==
    {p \in 1..Len(line) :
        /\ line[p] = ":"
        /\ \E r \in (p + 1)..Len(line) :
              /\ \A k \in (p + 1)..(r - 1) : line[k] = " "
              /\ \/ line[r] = "/"
                 \/ OccursAt(line, r, <<"h", "t", "t", "p", ":", "/", "/">>)
                 \/ OccursAt(line, r, <<"h", "t", "t", "p", "s", ":", "/", "/">>)}
WithoutSuffix(line) ==
    IF SuffixStarts(line) = {} THEN line
    ELSE SubSeq(line, 1, (CHOOSE p \in SuffixStarts(line) : \A r \in SuffixStarts(line) : p <= r) - 1)

\* the dedup key as C8 words it, and the key with the white space around it
\* trimmed as well
StatedKey(line) == Lower(WithoutSuffix(line))
TrimmedKey(line) == Lower(Strip(WithoutSuffix(line)))

\* the input lines that are not blank, trimmed, in order
NonBlank == {p \in 1..Len(lines_in) : Strip(lines_in[p]) # <<>>}
InLine(p) == Strip(lines_in[p])

\* with key K: no two output lines share a key, every line of the input has
\* the first input line of its key in the output, the output holds nothing
\* else, and the output is in the order of first occurrence
DedupHolds(K(_)) ==
    LET First(p) == CHOOSE f \in NonBlank :
                        /\ K(InLine(f)) = K(InLine(p))
                        /\ \A g \in NonBlank : K(InLine(g)) = K(InLine(p)) => f <= g
        firsts == {First(p) : p \in NonBlank}
    IN  /\ \A k, l \in 1..Len(dedup_lines) :
              k # l => K(dedup_lines[k]) # K(dedup_lines[l])
        /\ Len(dedup_lines) = Cardinality(firsts)
        /\ \A k \in 1..Len(dedup_lines) :
              \E f \in firsts :
                 /\ dedup_lines[k] = InLine(f)
                 /\ Cardinality({g \in firsts : g < f}) = k - 1

DedupExample ==
    lines_in = <<<<"C", "o", "n", "t", "a", "c", "t", " ", "u", "s", ":", " ", "h", "t", "t", "p", "s", ":", "/", "/", "a", ".", "c", "o", "m", "/", "x">>,
                 <<"C", "o", "n", "t", "a", "c", "t", " ", "u", "s", ":", " ", "/", "y">>>>
        => dedup_lines = <<<<"C", "o", "n", "t", "a", "c", "t", " ", "u", "s", ":", " ", "h", "t", "t", "p", "s", ":", "/", "/", "a", ".", "c", "o", "m", "/", "x">>>>

\* C8 as stated: with the dedup key being the line with its trailing
\* ": <http(s)-URL-or-/path>" suffix stripped, then lowercased, the output
\* has no two lines with the same key, the retained line of each key is the
\* first input line with that key, in the order of first occurrence.
C8_Original == dd_pc = "returned" => DedupHolds(StatedKey) /\ DedupExample

\* C8 amended: the same with the dedup key being the line with its trailing
\* ": <http(s)-URL-or-/path>" suffix stripped, then trimmed of surrounding
\* white space and lowercased; "Contact us: https://a.com/x" followed by
\* "Contact us: /y" yields only the first line.
C8_Dedup == dd_pc = "returned" => DedupHolds(TrimmedKey) /\ DedupExample

\* three lines of one key in three spellings came in and the first was kept
C8_Witness ==
    /\ dd_pc = "returned"
    /\ lines_in = <<<<"C", "o", "n", "t", "a", "c", "t", " ", "u", "s", ":", " ", "/", "y">>,
                    <<"C", "O", "N", "T", "A", "C", "T", " ", "U", "S", ":", "/", "z">>,
                    <<"H", "o", "m", "e">>>>
    /\ dedup_lines = <<<<"C", "o", "n", "t", "a", "c", "t", " ", "u", "s", ":", " ", "/", "y">>, <<"H", "o", "m", "e">>>>

----------------------------------------------------------------------------
(* Claims about find_string_in_html *)

\* whether sub occurs somewhere in text
Contains(text, sub) == \E p \in 1..(Len(text) + 1) : OccursAt(text, p, sub)

\* C9 as stated: for a target whose digit-only form d1..dk is not empty,
\* every hit's match text runs from an occurrence of d1 to the matching
\* occurrence of dk, holds the digits d1..dk in order with only non-digits
\* between them, and start and end are the offsets of exactly that span;
\* "449 805 5337" on "<p>call 449-805-5337 now</p>" gives one hit whose
\* match text is "449-805-5337" and whose snippet contains "call".
C9_DigitSpan ==
    (loc_pc = "returned" /\ DigitsOnly(target) # <<>>) =>
        /\ \A h \in 1..Len(loc_hits) :
             LET m == loc_hits[h].match
             IN  /\ DigitsOnly(m) = DigitsOnly(target)
                 /\ m[1] = DigitsOnly(target)[1]
                 /\ m[Len(m)] = DigitsOnly(target)[Len(DigitsOnly(target))]
                 /\ loc_hits[h].end - loc_hits[h].start = Len(m)
                 /\ SubSeq(loc_html, loc_hits[h].start + 1, loc_hits[h].end) = m
        /\ (target = LocExampleTarget /\ loc_html = LocExampleHtml) =>
             /\ Len(loc_hits) = 1
             /\ loc_hits[1].match = <<"4", "4", "9", "-", "8", "0", "5", "-", "5", "3", "3", "7">>
             /\ Contains(loc_hits[1].snippet, <<"c", "a", "l", "l">>)

----------------------------------------------------------------------------
(* Claims about detect_framework *)

FwText == Flatten(fw_html)
IdRootAttr == {<<"i", "d", "=", "\"", "r", "o", "o", "t", "\"">>}

\* a div tag that carries id="root" (either quote, any case) after at least
\* one other character
IsDivWithIdRoot(seg) ==
    /\ OpenName(seg) = <<"d", "i", "v">>
    /\ \E p \in 6..Len(seg) :
          Lower(SubSeq(seg, p, Min(Len(seg), p + 8))) \in
              {<<"i", "d", "=", "\"", "r", "o", "o", "t", "\"">>, <<"i", "d", "=", "'", "r", "o", "o", "t", "'">>}

\* the tags among h1, h2, h3, p, li that the body holds
BodyTagCount ==
    LET opens == {k \in 1..Len(fw_html) : OpenName(fw_html[k]) = BodyName}
        b == CHOOSE k \in opens : \A j \in opens : k <= j
        ends == {k \in 1..Len(fw_html) : k > b /\ CloseName(fw_html[k]) = BodyName}
        last == IF ends = {} THEN Len(fw_html) + 1
                ELSE CHOOSE k \in ends : \A j \in ends : k <= j
    IN  IF opens = {} THEN 0
        ELSE Cardinality({k \in (b + 1)..(last - 1) : OpenName(fw_html[k]) \in MeaningfulNames})

FwGeneral ==
    /\ fw_info.is_spa_like = (fw_info.frameworks_detected # <<>>)
    /\ fw_info.is_html_traditional = (fw_info.frameworks_detected = <<>> /\ BodyTagCount > 5)

\* a tag that carries the attribute id="root"
HasIdRootAttr(seg) == IsOpenTag(seg) /\ \E a \in IdRootAttr : HasText(seg, <<" ">> \o a)

----------------------------------------------------------------------------
(* Specifications *)

Init == FetchInit /\ PoolIdle /\ DecIdle /\ PhoneIdle /\ DedupIdle /\ LocIdle /\ FwIdle
Next == FetchNext
Spec == Init /\ [][Next]_vars

\* each GET answers or times out and the threads are scheduled
LiveSpec == Init /\ [][Next]_vars /\ WF_vars(Next)

PoolSpecInit == PoolInit /\ FetchIdle /\ DecIdle /\ PhoneIdle /\ DedupIdle /\ LocIdle /\ FwIdle
PoolSpec == PoolSpecInit /\ [][PoolNext]_vars
DecoderInit == DecInit /\ FetchIdle /\ PoolIdle /\ PhoneIdle /\ DedupIdle /\ LocIdle /\ FwIdle
DecoderSpec == DecoderInit /\ [][DecNext]_vars

PhoneSpecInit == PhoneInit /\ FetchIdle /\ PoolIdle /\ DecIdle /\ DedupIdle /\ LocIdle /\ FwIdle
PhoneSpec == PhoneSpecInit /\ [][PhoneNext]_vars

DedupSpecInit == DedupInit /\ FetchIdle /\ PoolIdle /\ DecIdle /\ PhoneIdle /\ LocIdle /\ FwIdle
DedupSpec == DedupSpecInit /\ [][DedupNext]_vars

LocatorInit == LocInit /\ FetchIdle /\ PoolIdle /\ DecIdle /\ PhoneIdle /\ DedupIdle /\ FwIdle
LocatorSpec == LocatorInit /\ [][LocNext]_vars

FrameworkInit == FwInit /\ FetchIdle /\ PoolIdle /\ DecIdle /\ PhoneIdle /\ DedupIdle /\ LocIdle
FrameworkSpec == FrameworkInit /\ [][FwNext]_vars

====
